---- MODULE Spec2Model ----
(***************************************************************************)
(* Model of cli/readme.py: the generator that scans the example tree,      *)
(* rewrites the notebooks, writes one workflow document per discovered     *)
(* item under .github/workflows and regenerates README.md.                 *)
(*                                                                         *)
(* Text is modelled as it is built by the code.  A Python str holding data *)
(* (a path, a file line, a number rendered in decimal) is a sequence of    *)
(* one-character strings.  The fixed text of an f-string template is kept  *)
(* as chunks: one TLA+ string per chunk, so that a generated document is   *)
(* the concatenation of template chunks and data characters in the order   *)
(* the code appends them.                                                  *)
(***************************************************************************)
EXTENDS Integers, Sequences, FiniteSets, TLC

\* ------------------------------------------------------------ bounds

\* the largest number of definition files, scripts and notebooks present in
\* the working directory at once
MaxFiles == 2

\* the number of successive invocations of the generator that are followed
MaxRuns == 2

\* width in bits of the stand-in for the sha512 digest
DigestBits == 16

\* --------------------------------------------------------- characters

\* the characters that occur in data, in code-point order
Alphabet == <<"\n"," ","#","*","-",".","/","0","1","2","3","4","5","6","7","8","9",":","T","\\","_","a","b","c","d","e","f","g","h","i","j","k","l","m","n","o","p","q","r","s","t","u","v","w","x","y","z">>

Chars == {Alphabet[i] : i \in DOMAIN Alphabet}

OrdTable == [c \in Chars |-> CHOOSE i \in DOMAIN Alphabet : Alphabet[i] = c]

\* ord(c), up to an order-preserving renumbering
Ord(c) == OrdTable[c]

\* ------------------------------------------------- Python str methods

\* a list given element by element, as the tuple of its elements
List(xs) == xs \o << >>

\* s[i:] with i counted from 0
From(s, i) == SubSeq(s, i + 1, Len(s))

\* the indices i (from 0) with s[i:].startswith(t)
Occurrences(s, t) ==
    {i \in 0..(Len(s) - Len(t)) : s[i + 1] = t[1] /\ SubSeq(s, i + 1, i + Len(t)) = t}

\* t in s
Contains(s, t) ==
    \E i \in 0..(Len(s) - Len(t)) : s[i + 1] = t[1] /\ SubSeq(s, i + 1, i + Len(t)) = t

\* s.find(t): the first index of Occurrences(s, t), -1 if there is none
Find(s, t) ==
    LET occ == Occurrences(s, t)
    IN  IF occ = {} THEN -1 ELSE CHOOSE i \in occ : \A j \in occ : i <= j

RECURSIVE Replace(_, _, _)
\* s.replace(old, new): every non-overlapping occurrence, left to right
Replace(s, old, new) ==
    IF Len(old) = 1 /\ Len(new) = 1
    THEN List([i \in DOMAIN s |-> IF s[i] = old[1] THEN new[1] ELSE s[i]])
    ELSE LET i == Find(s, old)
         IN  IF i < 0 THEN s
             ELSE SubSeq(s, 1, i) \o new \o Replace(From(s, i + Len(old)), old, new)

RECURSIVE Split(_, _)
\* s.split(sep): the list of the pieces between the occurrences of sep
Split(s, sep) ==
    LET i == Find(s, sep)
    IN  IF i < 0 THEN <<s>>
        ELSE <<SubSeq(s, 1, i)>> \o Split(From(s, i + Len(sep)), sep)

RECURSIVE Join(_, _)
\* sep.join(parts)
Join(parts, sep) ==
    IF parts = <<>> THEN <<>>
    ELSE IF Len(parts) = 1 THEN parts[1]
    ELSE parts[1] \o sep \o Join(Tail(parts), sep)

Whitespace == {" ", "\n"}

RECURSIVE LStrip(_)
LStrip(s) == IF s # <<>> /\ Head(s) \in Whitespace THEN LStrip(Tail(s)) ELSE s

RECURSIVE RStrip(_)
RStrip(s) ==
    IF s # <<>> /\ s[Len(s)] \in Whitespace THEN RStrip(SubSeq(s, 1, Len(s) - 1)) ELSE s

\* s.strip()
Strip(s) == RStrip(LStrip(s))

\* s[-n:]
LastN(s, n) == IF Len(s) <= n THEN s ELSE SubSeq(s, Len(s) - n + 1, Len(s))

\* parts[-1]
Last(parts) == parts[Len(parts)]

\* parts[:-1]
Front(parts) == SubSeq(parts, 1, Len(parts) - 1)

\* a < b on Python strings: lexicographic by code point, decided at the
\* first position where the two differ
LexLess(a, b) ==
    LET n == IF Len(a) < Len(b) THEN Len(a) ELSE Len(b)
        diff == {i \in 1..n : a[i] # b[i]}
    IN  IF diff = {} THEN Len(a) < Len(b)
        ELSE LET i == CHOOSE d \in diff : \A e \in diff : d <= e
             IN  Ord(a[i]) < Ord(b[i])

RECURSIVE sorted(_)
\* sorted(S) of a collection without repetitions
sorted(S) ==
    IF S = {} THEN <<>>
    ELSE LET m == CHOOSE x \in S : \A y \in S \ {x} : LexLess(x, y)
         IN  <<m>> \o sorted(S \ {m})

\* str(n) of a natural number
Digits == <<"0","1","2","3","4","5","6","7","8","9">>

RECURSIVE str(_)
str(n) == IF n < 10 THEN <<Digits[n + 1]>> ELSE str(n \div 10) \o <<Digits[(n % 10) + 1]>>

\* the set of the elements of a list
Range(xs) == {xs[i] : i \in DOMAIN xs}

\* ------------------------------------------------ module-level constants

\* EXCLUDED_JOBS = ["java", "spark-job-component", "storage_pe", "user-assigned-identity"]
EXCLUDED_JOBS ==
    << <<"j","a","v","a">>, <<"s","p","a","r","k","-","j","o","b","-","c","o","m","p","o","n","e","n","t">>, <<"s","t","o","r","a","g","e","_","p","e">>, <<"u","s","e","r","-","a","s","s","i","g","n","e","d","-","i","d","e","n","t","i","t","y">> >>

EXCLUDED_ENDPOINTS ==
    << <<"1","-","u","a","i","-","c","r","e","a","t","e","-","e","n","d","p","o","i","n","t">>, <<"1","-","s","a","i","-","c","r","e","a","t","e","-","e","n","d","p","o","i","n","t">>, <<"t","f","s","e","r","v","i","n","g","-","e","n","d","p","o","i","n","t">> >>

EXCLUDED_DEPLOYMENTS ==
    << <<"m","i","n","i","m","a","l","-","m","u","l","t","i","m","o","d","e","l","-","d","e","p","l","o","y","m","e","n","t">>,
       <<"m","i","n","i","m","a","l","-","s","i","n","g","l","e","-","m","o","d","e","l","-","c","o","n","d","a","-","i","n","-","d","o","c","k","e","r","f","i","l","e","-","d","e","p","l","o","y","m","e","n","t">>,
       <<"m","l","f","l","o","w","-","d","e","p","l","o","y","m","e","n","t">>,
       <<"r","-","d","e","p","l","o","y","m","e","n","t">>,
       <<"t","o","r","c","h","s","e","r","v","e","-","d","e","p","l","o","y","m","e","n","t">>,
       <<"t","r","i","t","o","n","-","c","c","-","d","e","p","l","o","y","m","e","n","t">>,
       <<"2","-","s","a","i","-","d","e","p","l","o","y","m","e","n","t">>,
       <<"k","u","b","e","r","n","e","t","e","s","-","g","r","e","e","n","-","d","e","p","l","o","y","m","e","n","t">> >>

EXCLUDED_RESOURCES ==
    << <<"w","o","r","k","s","p","a","c","e">>,
       <<"d","a","t","a","s","t","o","r","e">>,
       <<"v","m","-","a","t","t","a","c","h">>,
       <<"i","n","s","t","a","n","c","e">>,
       <<"c","o","n","n","e","c","t","i","o","n","s">>,
       <<"c","o","m","p","u","t","e","/","c","l","u","s","t","e","r","-","u","s","e","r","-","i","d","e","n","t","i","t","y">>,
       <<"c","o","m","p","u","t","e","/","a","t","t","a","c","h","e","d","-","s","p","a","r","k">>,
       <<"c","o","m","p","u","t","e","/","a","t","t","a","c","h","e","d","-","s","p","a","r","k","-","s","y","s","t","e","m","-","i","d","e","n","t","i","t","y">>,
       <<"c","o","m","p","u","t","e","/","a","t","t","a","c","h","e","d","-","s","p","a","r","k","-","u","s","e","r","-","i","d","e","n","t","i","t","y">>,
       <<"r","e","g","i","s","t","r","y">> >>

EXCLUDED_ASSETS == << <<"c","o","n","d","a","-","y","a","m","l","s">>, <<"m","l","f","l","o","w","-","m","o","d","e","l","s">> >>

EXCLUDED_SCHEDULES == << >>

EXCLUDED_SCRIPTS ==
    << <<"s","e","t","u","p">>,
       <<"c","l","e","a","n","u","p">>,
       <<"r","u","n","-","j","o","b">>,
       <<"r","u","n","-","p","i","p","e","l","i","n","e","-","j","o","b","-","w","i","t","h","-","r","e","g","i","s","t","r","y","-","c","o","m","p","o","n","e","n","t","s">>,
       <<"d","e","p","l","o","y","-","c","u","s","t","o","m","-","c","o","n","t","a","i","n","e","r","-","m","u","l","t","i","m","o","d","e","l","-","m","i","n","i","m","a","l">>,
       <<"r","u","n","-","p","i","p","e","l","i","n","e","-","j","o","b","s">> >>

READONLY_HEADER ==
    "# This code is autogenerated.\n# Code is generated by running custom script: python3 readme.py\n# Any manual changes to this file may cause incorrect behavior.\n# Any manual changes will be overwritten if the code is regenerated.\n"

CREDENTIALS == "${{secrets.AZUREML_CREDENTIALS}}"

BRANCH == "main"

GITHUB_WORKSPACE == "${{ github.workspace }}"

GITHUB_CONCURRENCY_GROUP ==
    "${{ github.workflow }}-${{ github.event.pull_request.number || github.ref }}"

hours_between_runs == 12

\* file-name suffixes and separators used as literals by the code
yml == <<".","y","m","l">>

yaml == <<".","y","a","m","l">>

sh == <<".","s","h">>

slash == <<"/">>

hyphen == <<"-">>

\* ------------------------------------------------------ the example tree

\* The definition files, scripts and notebooks that may be present in the
\* working directory, by their forward-slash relative path.  Each category
\* has an item that passes its exclusion list and (where the list is not
\* empty) one that does not.
ItemFiles ==
    { <<"j","o","b","s","/","b","a","s","i","c","s","/","h","e","l","l","o","-","j","o","b",".","y","m","l">>,
      <<"j","o","b","s","/","b","a","s","i","c","s","/","h","e","l","l","o",".","y","m","l">>,
      <<"j","o","b","s","/","s","i","n","g","l","e","/","a","-","j","o","b",".","y","m","l">>,
      <<"j","o","b","s","/","s","i","n","g","l","e","-","a","-","j","o","b",".","y","m","l">>,
      <<"j","o","b","s","/","p","i","p","e","l","i","n","e","s","-","w","i","t","h","-","c","o","m","p","o","n","e","n","t","s","/","b","a","s","i","c","s","/","a","u","t","o","m","l","-","i","m","a","g","e","/","a","u","t","o","t","u","n","i","n","g","-","p","i","p","e","l","i","n","e",".","y","m","l">>,
      <<"j","o","b","s","/","p","i","p","e","l","i","n","e","s","-","w","i","t","h","-","c","o","m","p","o","n","e","n","t","s","/","b","a","s","i","c","s","/","j","a","v","a","/","p","i","p","e","l","i","n","e",".","y","m","l">>,
      <<"j","o","b","s","/","p","i","p","e","l","i","n","e","s","-","w","i","t","h","-","c","o","m","p","o","n","e","n","t","s","/","b","a","s","i","c","s","/","p","/","p","i","p","e","l","i","n","e",".","y","m","l">>,
      <<"e","n","d","p","o","i","n","t","s","/","o","n","l","i","n","e","/","f","o","o","/","f","o","o","-","e","n","d","p","o","i","n","t",".","y","m","l">>,
      <<"e","n","d","p","o","i","n","t","s","/","o","n","l","i","n","e","/","t","f","s","e","r","v","i","n","g","-","e","n","d","p","o","i","n","t",".","y","m","l">>,
      <<"r","e","s","o","u","r","c","e","s","/","c","o","m","p","u","t","e","/","c","l","u","s","t","e","r",".","y","m","l">>,
      <<"r","e","s","o","u","r","c","e","s","/","c","o","m","p","u","t","e","/","c","l","u","s","t","e","r","-","u","s","e","r","-","i","d","e","n","t","i","t","y",".","y","m","l">>,
      <<"a","s","s","e","t","s","/","d","a","t","a","/","d",".","y","m","l">>,
      <<"a","s","s","e","t","s","/","m","l","f","l","o","w","-","m","o","d","e","l","s","/","m",".","y","m","l">>,
      <<"t","r","a","i","n",".","s","h">>,
      <<"s","e","t","u","p",".","s","h">>,
      <<"s","c","h","e","d","u","l","e","s","/","c","r","o","n","-","s","c","h","e","d","u","l","e",".","y","m","l">>,
      <<"s","c","h","e","d","u","l","e","s","/","s","u","b","/","x","-","s","c","h","e","d","u","l","e",".","y","m","l">>,
      <<"a",".","i","p","y","n","b">>,
      <<"b",".","i","p","y","n","b">>,
      <<"j","o","b","s","/","c",".","i","p","y","n","b">> }

\* the endpoint that may have deployment files beside it
DeployedEndpoint == <<"e","n","d","p","o","i","n","t","s","/","o","n","l","i","n","e","/","f","o","o","/","f","o","o","-","e","n","d","p","o","i","n","t",".","y","m","l">>

\* the deployment files that may be present beside DeployedEndpoint
DeploymentFiles ==
    { <<"e","n","d","p","o","i","n","t","s","/","o","n","l","i","n","e","/","f","o","o","/","b","l","u","e","-","d","e","p","l","o","y","m","e","n","t",".","y","m","l">>,
      <<"e","n","d","p","o","i","n","t","s","/","o","n","l","i","n","e","/","f","o","o","/","g","r","e","e","n","-","d","e","p","l","o","y","m","e","n","t",".","y","m","l">>,
      <<"e","n","d","p","o","i","n","t","s","/","o","n","l","i","n","e","/","f","o","o","/","d","o","c","k","e","r","-","d","e","p","l","o","y","m","e","n","t",".","y","m","l">> }

Universe == ItemFiles \cup DeploymentFiles

RECURSIVE SubsetsUpTo(_, _)
\* the subsets of S that have at most k elements
SubsetsUpTo(S, k) ==
    IF k = 0 THEN { {} }
    ELSE LET smaller == SubsetsUpTo(S, k - 1)
         IN  smaller \cup { t \cup {x} : t \in smaller, x \in S }

\* the trees the generator is run over: at most MaxFiles files, the
\* deployment files beside DeployedEndpoint counting as one
Trees ==
    { items \cup deployments :
        <<items, deployments>> \in
            { <<i, d>> \in SubsetsUpTo(ItemFiles, MaxFiles) \X (SUBSET DeploymentFiles) :
                /\ Cardinality(i) + (IF d = {} THEN 0 ELSE 1) <= MaxFiles
                /\ d # {} => DeployedEndpoint \in i } }

\* the files whose open() raises although the directory lists them
Unreadable == { <<"a","s","s","e","t","s","/","d","a","t","a","/","d",".","y","m","l">> }

\* f.readlines() of a definition file
FileLines(path) ==
    CASE path = <<"j","o","b","s","/","b","a","s","i","c","s","/","h","e","l","l","o","-","j","o","b",".","y","m","l">> ->
            << <<"n","a","m","e",":"," ","h","e","l","l","o","\n">>, <<"d","e","s","c","r","i","p","t","i","o","n",":"," ","T","r","a","i","n","s"," ","a"," ","m","o","d","e","l","\n">> >>
      [] path = <<"j","o","b","s","/","s","i","n","g","l","e","/","a","-","j","o","b",".","y","m","l">> ->
            << <<"d","e","s","c","r","i","p","t","i","o","n",":"," ","T","r","a","i","n","s",":"," ","a"," ","m","o","d","e","l","\n">>, <<"n","a","m","e",":"," ","a","\n">> >>
      [] path = <<"j","o","b","s","/","p","i","p","e","l","i","n","e","s","-","w","i","t","h","-","c","o","m","p","o","n","e","n","t","s","/","b","a","s","i","c","s","/","p","/","p","i","p","e","l","i","n","e",".","y","m","l">> ->
            << <<"#"," ","d","e","s","c","r","i","p","t","i","o","n",":"," ","t","o","d","o","\n">>, <<"d","e","s","c","r","i","p","t","i","o","n",":"," ","T","r","a","i","n","s"," ","a"," ","m","o","d","e","l","\n">> >>
      [] path = <<"e","n","d","p","o","i","n","t","s","/","o","n","l","i","n","e","/","f","o","o","/","f","o","o","-","e","n","d","p","o","i","n","t",".","y","m","l">> ->
            << <<"n","a","m","e",":"," ","f","o","o","\n">>, <<" "," ","d","e","s","c","r","i","p","t","i","o","n",":"," ","T","r","a","i","n","s"," ","a"," ","m","o","d","e","l"," "," ","\n">>, <<"d","e","s","c","r","i","p","t","i","o","n",":"," ","o","t","h","e","r","\n">> >>
      [] path = <<"r","e","s","o","u","r","c","e","s","/","c","o","m","p","u","t","e","/","c","l","u","s","t","e","r",".","y","m","l">> ->
            << <<"d","e","s","c","r","i","p","t","i","o","n",":","\n">>, <<"n","a","m","e",":"," ","c","\n">> >>
      [] OTHER -> << <<"n","a","m","e",":"," ","x","\n">> >>

\* what json.load gives for a notebook file before the generator first runs:
\* json is FALSE for a file that is no JSON document, metadata is FALSE for a
\* document without a metadata section
InitialNotebook(path) ==
    CASE path = <<"a",".","i","p","y","n","b">> -> [json |-> TRUE, metadata |-> TRUE, kernelspec |-> "python3"]
      [] path = <<"b",".","i","p","y","n","b">> -> [json |-> FALSE, metadata |-> FALSE, kernelspec |-> "none"]
      [] OTHER -> [json |-> TRUE, metadata |-> FALSE, kernelspec |-> "none"]

\* the kernelspec value written by modify_notebooks
kernelspec == "python38-azureml"

\* ------------------------------------------------------------- state

VARIABLES
    os_sep,         \* os.sep of the platform: "/" or "\\"
    tree,           \* the files present in the working directory
    notebook_data,  \* notebook path -> the document the file holds
    workflows,      \* file name under ../.github/workflows -> its text
    README,         \* the text of README.md
    pc,             \* where main is
    run,            \* the number of this invocation
    args,           \* the parsed command line
    notebooks,      \* main's local lists
    jobs,
    jobs_using_registry_components,
    endpoints,
    resources,
    assets,
    scripts,
    schedules,
    readme_before,
    readme_after,
    exit_code,      \* -1 while running, then the exit status of the process
    written,        \* the workflow file names opened for writing so far in this invocation
    prev_workflows, \* workflows and README as the previous invocation left them
    prev_README

vars ==
    << os_sep, tree, notebook_data, workflows, README, pc, run, args, notebooks, jobs,
       jobs_using_registry_components, endpoints, resources, assets, scripts,
       schedules, readme_before, readme_after, exit_code, written, prev_workflows,
       prev_README >>

\* ------------------------------------------------------------- glob

\* path.replace(os.sep, "/")
posix(path) == Replace(path, <<os_sep>>, slash)

\* glob.has_magic(s), for the one wildcard the patterns use
has_magic(s) == "*" \in Range(s)

RECURSIVE fnmatch(_, _)
\* fnmatch of one path component against one pattern component ("*" only)
fnmatch(name, pat) ==
    IF ~has_magic(pat) THEN name = pat
    ELSE IF Head(pat) = "*"
         THEN \E k \in 0..Len(name) : fnmatch(From(name, k), Tail(pat))
         ELSE name # <<>> /\ Head(name) = Head(pat) /\ fnmatch(Tail(name), Tail(pat))

RECURSIVE GlobMatch(_, _, _)
\* whether the components of a file path match the components of a pattern;
\* with recursive, a "**" component stands for any number of directories
GlobMatch(segs, pats, recursive) ==
    IF pats = <<>> THEN segs = <<>>
    ELSE IF segs = <<>> THEN FALSE
    ELSE IF recursive /\ Head(pats) = <<"*","*">> /\ Len(pats) > 1
         THEN \/ GlobMatch(segs, Tail(pats), recursive)
              \/ Len(segs) > 1 /\ GlobMatch(Tail(segs), pats, recursive)
         ELSE /\ fnmatch(Head(segs), Head(pats))
              /\ GlobMatch(Tail(segs), Tail(pats), recursive)

RECURSIVE LiteralPrefix(_)
\* the number of leading directory components of a pattern that hold no
\* wildcard: glob returns them as the pattern spells them
LiteralPrefix(pats) ==
    IF Len(pats) <= 1 \/ has_magic(Head(pats)) THEN 0 ELSE 1 + LiteralPrefix(Tail(pats))

\* the components of the relative path of each file
Components == [path \in Universe |-> Split(path, slash)]

\* the string glob returns for a matching file: the first k components are
\* the literal directory part of the pattern, the others are joined to it
\* by os.path.join
GlobName(path, k) ==
    LET segs == Components[path]
        lit == Join(SubSeq(segs, 1, k), slash)
        rest == Join(SubSeq(segs, k + 1, Len(segs)), <<os_sep>>)
    IN  IF k = 0 THEN rest ELSE lit \o <<os_sep>> \o rest

\* glob.glob(pattern, recursive=recursive), as a set; pats are the
\* components of the pattern
glob(pats, recursive) ==
    LET k == LiteralPrefix(pats)
    IN  { GlobName(path, k) :
            path \in { q \in tree : GlobMatch(Components[q], pats, recursive) } }

\* open(path, "r") succeeds
CanOpen(path) == posix(path) \in tree /\ posix(path) \notin Unreadable

\* any(excluded in path for excluded in EXCLUDED)
AnyExcluded(path, EXCLUDED) == \E i \in DOMAIN EXCLUDED : Contains(path, EXCLUDED[i])

\* ------------------------------------------------- main: the item lists

\* [item.replace(suffix, "") for item in items if not any(excluded in ... )];
\* the exclusion test reads item.replace(os.sep, "/") if normalized, and
\* item as glob returned it if not
FilterStrip(items, normalized, EXCLUDED, suffix) ==
    LET kept == SelectSeq(items,
                    LAMBDA item :
                        ~AnyExcluded(IF normalized THEN posix(item) ELSE item, EXCLUDED))
    IN  List([i \in DOMAIN kept |-> Replace(kept[i], suffix, <<>>)])

\* the glob patterns of main, each split into its components
notebooks_pattern == Split(<<"*","*","/","*",".","i","p","y","n","b">>, slash)

jobs_patterns ==
    << Split(<<"j","o","b","s","/","*","*","/","*","j","o","b","*",".","y","m","l">>, slash),
       Split(<<"j","o","b","s","/","b","a","s","i","c","s","/","*",".","y","m","l">>, slash),
       Split(<<"j","o","b","s","/","*","/","b","a","s","i","c","s","/","*","*","/","*","j","o","b","*",".","y","m","l">>, slash),
       Split(<<"j","o","b","s","/","p","i","p","e","l","i","n","e","s","/","*","*","/","*","p","i","p","e","l","i","n","e","*",".","y","m","l">>, slash),
       Split(<<"j","o","b","s","/","s","p","a","r","k","/","*",".","y","m","l">>, slash),
       Split(<<"j","o","b","s","/","a","u","t","o","m","l","-","s","t","a","n","d","a","l","o","n","e","-","j","o","b","s","/","*","*","/","c","l","i","-","a","u","t","o","m","l","-","*",".","y","m","l">>, slash),
       Split(<<"j","o","b","s","/","p","i","p","e","l","i","n","e","s","-","w","i","t","h","-","c","o","m","p","o","n","e","n","t","s","/","*","*","/","*","p","i","p","e","l","i","n","e","*",".","y","m","l">>, slash),
       Split(<<"j","o","b","s","/","a","u","t","o","m","l","-","s","t","a","n","d","a","l","o","n","e","-","j","o","b","s","/","*","*","/","*","c","l","i","-","a","u","t","o","m","l","*",".","y","m","l">>, slash),
       Split(<<"r","e","s","p","o","n","s","i","b","l","e","-","a","i","/","*","*","/","c","l","i","-","*",".","y","m","l">>, slash),
       Split(<<"j","o","b","s","/","p","a","r","a","l","l","e","l","/","*","*","/","*","p","i","p","e","l","i","n","e","*",".","y","m","l">>, slash) >>

registry_pattern == Split(<<"j","o","b","s","/","p","i","p","e","l","i","n","e","s","-","w","i","t","h","-","c","o","m","p","o","n","e","n","t","s","/","b","a","s","i","c","s","/","*","*","/","*","p","i","p","e","l","i","n","e","*",".","y","m","l">>, slash)

endpoints_pattern == Split(<<"e","n","d","p","o","i","n","t","s","/","*","*","/","*","e","n","d","p","o","i","n","t",".","y","m","l">>, slash)

resources_pattern == Split(<<"r","e","s","o","u","r","c","e","s","/","*","*","/","*",".","y","m","l">>, slash)

assets_pattern == Split(<<"a","s","s","e","t","s","/","*","*","/","*",".","y","m","l">>, slash)

scripts_pattern == Split(<<"*",".","s","h">>, slash)

schedules_pattern == Split(<<"s","c","h","e","d","u","l","e","s","/","*","*","/","*","s","c","h","e","d","u","l","e",".","y","m","l">>, slash)

\* notebooks = sorted(glob.glob("**/*.ipynb", recursive=True))
main_notebooks == sorted(glob(notebooks_pattern, TRUE))

\* the ten sorted glob results, appended in the order of the code
jobs_globbed ==
    sorted(glob(jobs_patterns[1], TRUE))
    \o sorted(glob(jobs_patterns[2], FALSE))
    \o sorted(glob(jobs_patterns[3], TRUE))
    \o sorted(glob(jobs_patterns[4], TRUE))
    \o sorted(glob(jobs_patterns[5], FALSE))
    \o sorted(glob(jobs_patterns[6], TRUE))
    \o sorted(glob(jobs_patterns[7], TRUE))
    \o sorted(glob(jobs_patterns[8], TRUE))
    \o sorted(glob(jobs_patterns[9], TRUE))
    \o sorted(glob(jobs_patterns[10], TRUE))

main_jobs == FilterStrip(jobs_globbed, FALSE, EXCLUDED_JOBS, yml)

main_jobs_using_registry_components ==
    FilterStrip(sorted(glob(registry_pattern, TRUE)), TRUE, EXCLUDED_JOBS, yml)

main_endpoints == FilterStrip(sorted(glob(endpoints_pattern, TRUE)), TRUE, EXCLUDED_ENDPOINTS, yml)

\* a resources list filtered on the path as glob returned it
main_resources_raw == FilterStrip(sorted(glob(resources_pattern, TRUE)), FALSE, EXCLUDED_RESOURCES, yml)

main_resources == FilterStrip(sorted(glob(resources_pattern, TRUE)), TRUE, EXCLUDED_RESOURCES, yml)

main_assets == FilterStrip(sorted(glob(assets_pattern, TRUE)), TRUE, EXCLUDED_ASSETS, yml)

main_scripts == FilterStrip(sorted(glob(scripts_pattern, FALSE)), TRUE, EXCLUDED_SCRIPTS, sh)

main_schedules == FilterStrip(sorted(glob(schedules_pattern, TRUE)), TRUE, EXCLUDED_SCHEDULES, yml)

\* ------------------------------------------------------- small helpers

\* parse_path(path): filename, project_dir, hyphenated
parse_path(path) ==
    LET parts == Split(path, <<os_sep>>)
    IN  [ filename |-> Last(parts),
          project_dir |-> Join(Front(parts), <<os_sep>>),
          hyphenated |-> Replace(Replace(path, <<os_sep>>, hyphen), slash, hyphen) ]

RECURSIVE DigestFold(_, _)
DigestFold(s, acc) ==
    IF s = <<>> THEN acc
    ELSE DigestFold(Tail(s), (acc * 31 + Ord(Head(s))) % (2 ^ DigestBits))

\* int(hashlib.sha512(filename.encode()).hexdigest(), 16): the digest is
\* replaced by a deterministic stand-in of DigestBits bits
name_hash(filename) == DigestFold(filename, 7)

\* a get_schedule_time that does not reduce the hour
get_schedule_time_unreduced(filename) ==
    LET h == name_hash(filename)
    IN  <<h \div 60, h % 60>>

\* get_schedule_time(filename): schedule_hour, schedule_minute
get_schedule_time(filename) ==
    LET h == name_hash(filename)
        schedule_minute == h % 60
        schedule_hour == (h \div 60) % hours_between_runs
    IN  <<schedule_hour, schedule_minute>>

\* the values random.randrange is followed for
RandSample == {1000, 9998, 9999}

\* a randrange that ignores start, as random.randrange(stop) does
randrange_from_zero(start, stop) == {n \in RandSample \cup {0} : n < stop}

\* random.randrange(start, stop): start <= n < stop
randrange(start, stop) == {n \in RandSample : start <= n /\ n < stop}

\* os.path.relpath(".", project_dir): one ".." per component of project_dir
relpath_from(project_dir) ==
    LET components == Split(posix(project_dir), slash)
    IN  Join(List([i \in DOMAIN components |-> <<".",".">>]), <<os_sep>>)

\* ---------------------------------------------- workflow text fragments

\* the two lines that open every run block
source_env ==
    << "          source \"", GITHUB_WORKSPACE, "/infra/bootstrapping/sdk_helpers.sh\";\n",
       "          source \"", GITHUB_WORKSPACE, "/infra/bootstrapping/init_environment.sh\";\n" >>

\* name:, on:, the cron line and the head of the path filters
trigger_head(name, schedule_hour, schedule_minute) ==
    << READONLY_HEADER, "\nname: " >> \o name
    \o << "\non:\n  workflow_dispatch:\n  schedule:\n", "    - cron: \"" >>
    \o str(schedule_minute) \o <<" ">> \o str(schedule_hour) \o <<"/">> \o str(hours_between_runs)
    \o << " * * *\"\n", "  pull_request:\n    branches:\n      - main\n    paths:\n" >>

\* concurrency:, jobs: and the check out and login steps
steps_head(creds) ==
    << "concurrency:\n  group: ", GITHUB_CONCURRENCY_GROUP,
       "\n  cancel-in-progress: true\njobs:\n  build:\n    runs-on: ubuntu-latest\n    steps:\n",
       "    - name: check out repo\n", "      uses: actions/checkout@v2\n",
       "    - name: azure login\n", "      uses: azure/login@v1\n      with:\n        creds: ",
       creds, "\n" >>

\* the bootstrap step of the two job emitters, which echoes the group
bootstrap_echo ==
    << "    - name: bootstrap resources\n", "      run: |\n          echo '",
       GITHUB_CONCURRENCY_GROUP, "';\n          bash bootstrap.sh\n",
       "      working-directory: infra/bootstrapping\n", "      continue-on-error: false\n" >>

\* the bootstrap step of the other emitters
bootstrap_plain ==
    << "    - name: bootstrap resources\n", "      run: |\n          bash bootstrap.sh\n",
       "      working-directory: infra/bootstrapping\n", "      continue-on-error: false\n" >>

setup_cli ==
    << "    - name: setup-cli\n", "      run: |\n" >> \o source_env
    \o << "          bash setup.sh\n", "      working-directory: cli\n",
          "      continue-on-error: true\n" >>

validate_readme(posix_project_dir) ==
    << "    - name: validate readme\n", "      run: |\n          bash check-readme.sh \"",
       GITHUB_WORKSPACE, "\" \"", GITHUB_WORKSPACE, "/cli/" >> \o posix_project_dir
    \o << "\"\n", "      working-directory: infra/bootstrapping\n",
          "      continue-on-error: false\n" >>

\* the data-preparation lines of an automl image job
prepare_data ==
    << "          bash \"", GITHUB_WORKSPACE,
       "/infra/bootstrapping/sdk_helpers.sh\" replace_template_values \"prepare_data.py\";\n",
       "          pip install azure-identity\n",
       "          bash \"", GITHUB_WORKSPACE, "/sdk/python/setup.sh\"  \n",
       "          python prepare_data.py --subscription $SUBSCRIPTION_ID --group $RESOURCE_GROUP_NAME --workspace $WORKSPACE_NAME\n" >>

\* ------------------------------------------------------ job workflows

get_spark_setup_workflow(job, posix_project_dir, filename) ==
    LET is_attached == Contains(job, <<"a","t","t","a","c","h","e","d","-","s","p","a","r","k">>)
        is_user_identity == Contains(job, <<"u","s","e","r","-","i","d","e","n","t","i","t","y">>)
        is_managed_identity == Contains(job, <<"m","a","n","a","g","e","d","-","i","d","e","n","t","i","t","y">>)
        is_default_identity == Contains(job, <<"d","e","f","a","u","l","t","-","i","d","e","n","t","i","t","y">>)
        attached(resource) ==
            << "\n      run: |\n          bash -x " >> \o posix_project_dir
            \o << "/setup-attached-resources.sh resources/compute/", resource, ".yml " >>
            \o posix_project_dir \o slash \o filename \o << ".yml\n" >>
    IN  << "    - name: upload data\n",
           "      run: |\n          bash -x upload-data-to-blob.sh jobs/spark/\n",
           "      working-directory: cli\n", "      continue-on-error: true\n" >>
        \o (IF is_managed_identity
            THEN << "    - name: setup identities\n",
                    "      run: |\n          bash -x setup-identities.sh\n",
                    "      working-directory: cli/" >> \o posix_project_dir
                 \o << "\n", "      continue-on-error: true\n" >>
            ELSE << >>)
        \o (IF is_attached
            THEN << "    - name: setup attached spark\n", "      working-directory: cli\n",
                    "      continue-on-error: true" >>
            ELSE << >>)
        \o (IF is_attached /\ is_user_identity
            THEN attached("attached-spark-user-identity") ELSE << >>)
        \o (IF is_attached /\ is_managed_identity
            THEN attached("attached-spark-system-identity") ELSE << >>)
        \o (IF is_attached /\ is_default_identity
            THEN attached("attached-spark") ELSE << >>)

\* write_job_workflow(job): the file name it opens and the text it writes
write_job_workflow(job) ==
    LET p == parse_path(job)
        filename == p.filename
        hyphenated == p.hyphenated
        posix_project_dir == posix(p.project_dir)
        is_pipeline_sample == Contains(job, <<"j","o","b","s","/","p","i","p","e","l","i","n","e","s">>)
        is_spark_sample == Contains(job, <<"j","o","b","s","/","s","p","a","r","k">>)
        t == get_schedule_time(filename)
        schedule_hour == t[1]
        schedule_minute == t[2]
        workflow_yaml ==
            trigger_head(<< "cli-" >> \o hyphenated, schedule_hour, schedule_minute)
            \o << "      - cli/" >> \o posix_project_dir
            \o << "/**\n      - infra/bootstrapping/**\n", "      - .github/workflows/cli-" >>
            \o hyphenated \o << ".yml\n" >>
            \o (IF is_pipeline_sample THEN << "      - cli/run-pipeline-jobs.sh\n" >> ELSE << >>)
            \o (IF is_spark_sample
                THEN << "      - cli/jobs/spark/data/titanic.csv\n" >> ELSE << >>)
            \o << "      - cli/setup.sh\n" >>
            \o steps_head(CREDENTIALS) \o bootstrap_echo \o setup_cli
            \o (IF is_spark_sample
                THEN get_spark_setup_workflow(job, posix_project_dir, filename) ELSE << >>)
            \o << "    - name: run job\n", "      run: |\n" >> \o source_env
            \o (IF Contains(job, <<"a","u","t","o","m","l">>) /\ Contains(job, <<"i","m","a","g","e">>) THEN prepare_data
                ELSE IF Contains(job, <<"a","u","t","o","t","u","n","i","n","g">>)
                     THEN << "          bash -x generate-yml.sh\n" >> ELSE << >>)
            \o << "          bash -x " >> \o posix(relpath_from(p.project_dir))
            \o << "/run-job.sh " >> \o filename
            \o << ".yml\n", "      working-directory: cli/" >> \o posix_project_dir \o << "\n" >>
            \o validate_readme(posix_project_dir)
    IN  [ file |-> <<"c","l","i","-">> \o Replace(Replace(job, <<os_sep>>, hyphen), slash, hyphen) \o yml,
          text |-> workflow_yaml ]

\* write_job_using_registry_components_workflow(job)
write_job_using_registry_components_workflow(job) ==
    LET p == parse_path(job)
        filename == p.filename
        hyphenated == p.hyphenated
        posix_project_dir == posix(p.project_dir)
        folder_name == Last(Split(p.project_dir, <<os_sep>>))
        is_pipeline_sample == Contains(job, <<"j","o","b","s","/","p","i","p","e","l","i","n","e","s">>)
        t == get_schedule_time(filename)
        schedule_hour == t[1]
        schedule_minute == t[2]
        workflow_yaml ==
            trigger_head(<< "cli-" >> \o hyphenated \o << "-registry" >>,
                         schedule_hour, schedule_minute)
            \o << "      - cli/" >> \o posix_project_dir
            \o << "/**\n      - infra/bootstrapping/**\n", "      - .github/workflows/cli-" >>
            \o hyphenated \o << "-registry.yml\n" >>
            \o (IF is_pipeline_sample THEN << "      - cli/run-pipeline-jobs.sh\n" >> ELSE << >>)
            \o << "      - cli/setup.sh\n" >>
            \o steps_head(CREDENTIALS) \o bootstrap_echo \o setup_cli
            \o validate_readme(posix_project_dir)
            \o << "    - name: run job\n", "      run: |\n" >> \o source_env
            \o (IF Contains(job, <<"a","u","t","o","m","l">>) /\ Contains(job, <<"i","m","a","g","e">>) THEN prepare_data
                ELSE << >>)
            \o << "          bash -x " >> \o posix(relpath_from(p.project_dir))
            \o << "/run-pipeline-job-with-registry-components.sh " >> \o filename
            \o <<" ">> \o folder_name
            \o << "\n      working-directory: cli/" >> \o posix_project_dir \o << "\n" >>
    IN  [ file |-> <<"c","l","i","-">> \o Replace(Replace(job, <<os_sep>>, hyphen), slash, hyphen)
                   \o <<"-","r","e","g","i","s","t","r","y",".","y","m","l">>,
          text |-> workflow_yaml ]

\* ------------------------------------------------- endpoint workflows

\* the deployment files of an endpoint, less the excluded, in descending order
endpoint_deployments_descending(project_dir) ==
    LET ascending ==
            SelectSeq(sorted(glob(Split(project_dir \o <<"/","*","d","e","p","l","o","y","m","e","n","t",".","y","m","l">>, slash), TRUE)
                             \cup glob(Split(project_dir \o <<"/","*","d","e","p","l","o","y","m","e","n","t",".","y","a","m","l">>, slash), TRUE)),
                      LAMBDA deployment : ~AnyExcluded(deployment, EXCLUDED_DEPLOYMENTS))
    IN  [i \in DOMAIN ascending |-> ascending[Len(ascending) + 1 - i]]

\* the deployment files found beside an endpoint, sorted, less the excluded
endpoint_deployments(project_dir) ==
    SelectSeq(sorted(glob(Split(project_dir \o <<"/","*","d","e","p","l","o","y","m","e","n","t",".","y","m","l">>, slash), TRUE)
                     \cup glob(Split(project_dir \o <<"/","*","d","e","p","l","o","y","m","e","n","t",".","y","a","m","l">>, slash), TRUE)),
              LAMBDA deployment : ~AnyExcluded(deployment, EXCLUDED_DEPLOYMENTS))

\* the endpoint name with the hyphens of the hyphenated name left in
make_endpoint_name_hyphens_kept(hyphenated, n) == LastN(hyphenated, 28) \o str(n)

\* the endpoint name with the random number in front
make_endpoint_name_number_first(hyphenated, n) ==
    str(n) \o Replace(LastN(hyphenated, 28), hyphen, <<>>)

\* hyphenated[-28:].replace("-", "") + str(n), n the number randrange returned
make_endpoint_name(hyphenated, n) == Replace(LastN(hyphenated, 28), hyphen, <<>>) \o str(n)

\* the "create deployment" step of one deployment file
deployment_yaml(deployment_file, endpoint_type, endpoint_name) ==
    LET deployment == Replace(Replace(deployment_file, yml, <<>>), yaml, <<>>)
    IN  << "    - name: create deployment\n", "      run: |\n" >> \o source_env
        \o << "          cat " >> \o deployment
        \o << ".yml\n", "          az ml ", endpoint_type, "-deployment create -e " >>
        \o endpoint_name \o << " -f " >> \o deployment
        \o << ".yml\n", "      working-directory: cli\n" >>

RECURSIVE deployment_steps(_, _, _)
\* for deployment in deployments: workflow_yaml += deployment_yaml
deployment_steps(deployments, endpoint_type, endpoint_name) ==
    IF deployments = << >> THEN << >>
    ELSE deployment_yaml(Head(deployments), endpoint_type, endpoint_name)
         \o deployment_steps(Tail(deployments), endpoint_type, endpoint_name)

\* write_endpoint_workflow(endpoint), n the number random.randrange returned
write_endpoint_workflow(endpoint, n) ==
    LET p == parse_path(endpoint)
        filename == p.filename
        hyphenated == p.hyphenated
        project_dir == posix(p.project_dir)
        deployments == endpoint_deployments(project_dir)
        t == get_schedule_time(filename)
        schedule_hour == t[1]
        schedule_minute == t[2]
        endpoint_type ==
            IF Contains(endpoint, <<"e","n","d","p","o","i","n","t","s","/","o","n","l","i","n","e","/">>) THEN "online"
            ELSE IF Contains(endpoint, <<"e","n","d","p","o","i","n","t","s","/","b","a","t","c","h","/">>) THEN "batch"
            ELSE "unknown"
        endpoint_name == make_endpoint_name(hyphenated, n)
        create_endpoint_yaml ==
            trigger_head(<< "cli-" >> \o hyphenated, schedule_hour, schedule_minute)
            \o << "      - cli/" >> \o project_dir
            \o << "/**\n", "      - cli/endpoints/", endpoint_type,
                  "/**\n      - infra/bootstrapping/**\n", "      - .github/workflows/cli-" >>
            \o hyphenated \o << ".yml\n", "      - cli/setup.sh\n" >>
            \o steps_head(CREDENTIALS) \o bootstrap_plain \o setup_cli
            \o validate_readme(project_dir)
            \o << "    - name: delete endpoint if existing\n", "      run: |\n" >> \o source_env
            \o << "          az ml ", endpoint_type, "-endpoint delete -n " >> \o endpoint_name
            \o << " -y\n", "      working-directory: cli\n", "      continue-on-error: true\n" >>
            \o << "    - name: create endpoint\n", "      run: |\n" >> \o source_env
            \o << "          cat " >> \o endpoint
            \o << ".yml\n", "          az ml ", endpoint_type, "-endpoint create -n " >>
            \o endpoint_name \o << " -f " >> \o endpoint
            \o << ".yml\n", "      working-directory: cli\n" >>
        cleanup_yaml ==
            << "    - name: cleanup endpoint\n", "      run: |\n" >> \o source_env
            \o << "          az ml ", endpoint_type, "-endpoint delete -n " >> \o endpoint_name
            \o << " -y\n", "      working-directory: cli\n" >>
    IN  [ file |-> <<"c","l","i","-">> \o hyphenated \o yml,
          text |-> create_endpoint_yaml
                   \o deployment_steps(deployments, endpoint_type, endpoint_name)
                   \o cleanup_yaml ]

\* ----------------------------------- asset, script and schedule workflows

\* write_asset_workflow(asset), used for resources and for assets
write_asset_workflow(asset) ==
    LET p == parse_path(asset)
        filename == p.filename
        hyphenated == p.hyphenated
        project_dir == posix(p.project_dir)
        posix_asset == posix(asset)
        t == get_schedule_time(filename)
        schedule_hour == t[1]
        schedule_minute == t[2]
        workflow_yaml ==
            trigger_head(<< "cli-" >> \o hyphenated, schedule_hour, schedule_minute)
            \o << "      - cli/" >> \o posix_asset
            \o << ".yml\n      - infra/bootstrapping/**\n", "      - .github/workflows/cli-" >>
            \o hyphenated \o << ".yml\n", "      - cli/setup.sh\n" >>
            \o steps_head(CREDENTIALS) \o bootstrap_plain \o setup_cli
            \o validate_readme(project_dir)
            \o << "    - name: create asset\n", "      run: |\n" >> \o source_env
            \o << "          az ml " >> \o Split(asset, <<os_sep>>)[2]
            \o << " create -f " >> \o posix_asset
            \o << ".yml\n", "      working-directory: cli\n" >>
    IN  [ file |-> <<"c","l","i","-">> \o hyphenated \o yml, text |-> workflow_yaml ]

\* write_script_workflow(script)
write_script_workflow(script) ==
    LET p == parse_path(script)
        filename == p.filename
        hyphenated == p.hyphenated
        project_dir == posix(p.project_dir)
        t == get_schedule_time(filename)
        schedule_hour == t[1]
        schedule_minute == t[2]
        workflow_yaml ==
            trigger_head(<< "cli-scripts-" >> \o hyphenated, schedule_hour, schedule_minute)
            \o << "      - cli/" >> \o script
            \o << ".sh\n      - infra/bootstrapping/**\n",
                  "      - .github/workflows/cli-scripts-" >>
            \o hyphenated \o << ".yml\n", "      - cli/setup.sh\n" >>
            \o steps_head(CREDENTIALS) \o bootstrap_plain \o setup_cli
            \o validate_readme(project_dir)
            \o << "    - name: test script script\n", "      run: |\n" >> \o source_env
            \o << "          set -e; bash -x " >> \o script
            \o << ".sh\n", "      working-directory: cli\n" >>
    IN  [ file |-> <<"c","l","i","-","s","c","r","i","p","t","s","-">> \o hyphenated \o yml, text |-> workflow_yaml ]

\* write_schedule_workflow(schedule)
write_schedule_workflow(schedule) ==
    LET p == parse_path(schedule)
        filename == p.filename
        hyphenated == p.hyphenated
        project_dir == posix(p.project_dir)
        posix_schedule == posix(schedule)
        t == get_schedule_time(filename)
        schedule_hour == t[1]
        schedule_minute == t[2]
        workflow_yaml ==
            trigger_head(<< "cli-schedules-" >> \o hyphenated, schedule_hour, schedule_minute)
            \o << "      - cli/" >> \o posix_schedule
            \o << ".yml\n      - infra/bootstrapping/**\n",
                  "      - .github/workflows/cli-schedules-" >>
            \o hyphenated \o << ".yml\n", "      - cli/setup.sh\n" >>
            \o steps_head(CREDENTIALS) \o bootstrap_plain \o setup_cli
            \o validate_readme(project_dir)
            \o << "    - name: create schedule\n", "      run: |\n" >> \o source_env
            \o << "          az ml schedule create -f ./" >> \o posix_schedule
            \o << ".yml --set name=\"ci_test_" >> \o filename
            \o << "\"\n", "      working-directory: cli\n\n" >>
            \o << "    - name: disable schedule\n", "      run: |\n" >> \o source_env
            \o << "          az ml schedule disable --name ci_test_" >> \o filename
            \o << "\n      working-directory: cli\n" >>
    IN  [ file |-> <<"c","l","i","-","s","c","h","e","d","u","l","e","s","-">> \o hyphenated \o yml, text |-> workflow_yaml ]

\* ------------------------------------------------------------ README

\* the fallback of the description column
no_description == <<"*","n","o"," ","d","e","s","c","r","i","p","t","i","o","n","*">>

RECURSIVE first_description(_)
\* the loop over f.readlines(): the first line holding "description: "
\* gives line.split(": ")[-1].strip()
first_description(lines) ==
    IF lines = << >> THEN no_description
    ELSE IF Contains(Head(lines), <<"d","e","s","c","r","i","p","t","i","o","n",":"," ">>)
         THEN Strip(Last(Split(Head(lines), <<":"," ">>)))
         ELSE first_description(Tail(lines))

\* the try/except around open(f"{item}.yml")
read_description(item) ==
    IF CanOpen(item \o yml) THEN first_description(FileLines(posix(item \o yml)))
    ELSE no_description

\* One table row.  path is the link of the first column; badge is the
\* workflow name of the badge image and workflow the file name of the
\* actions link in the status column.
described_row(item) ==
    LET posix_item == posix(item)
        item_name == Replace(posix_item, slash, hyphen)
    IN  [ path |-> posix_item \o yml,
          alt |-> posix_item,
          badge |-> <<"c","l","i","-">> \o item_name,
          workflow |-> <<"c","l","i","-">> \o item_name \o yml,
          description |-> read_description(item) ]

script_row(script) ==
    LET posix_script == posix(script)
    IN  [ path |-> posix_script \o sh,
          alt |-> posix_script,
          badge |-> <<"c","l","i","-","s","c","r","i","p","t","s","-">> \o script,
          workflow |-> <<"c","l","i","-","s","c","r","i","p","t","s","-">> \o script \o yml ]

schedule_row(schedule) ==
    LET posix_schedule == posix(schedule)
    IN  [ path |-> posix_schedule \o yml,
          alt |-> posix_schedule,
          badge |-> <<"c","l","i","-","s","c","h","e","d","u","l","e","s","-">> \o posix_schedule,
          workflow |-> <<"c","l","i","-","s","c","h","e","d","u","l","e","s","-">> \o posix_schedule \o yml ]

\* the contents of prefix.md and suffix.md
prefix_md == "prefix.md"

suffix_md == "suffix.md"

\* write_readme(jobs, endpoints, resources, assets, scripts, schedules):
\* the text written to README.md, table by table in the order of the write
write_readme(jobs_, endpoints_, resources_, assets_, scripts_, schedules_) ==
    [ prefix |-> prefix_md,
      scripts_table |-> List([i \in DOMAIN scripts_ |-> script_row(scripts_[i])]),
      jobs_table |-> List([i \in DOMAIN jobs_ |-> described_row(jobs_[i])]),
      endpoints_table |-> List([i \in DOMAIN endpoints_ |-> described_row(endpoints_[i])]),
      resources_table |-> List([i \in DOMAIN resources_ |-> described_row(resources_[i])]),
      assets_table |-> List([i \in DOMAIN assets_ |-> described_row(assets_[i])]),
      schedules_table |-> List([i \in DOMAIN schedules_ |-> schedule_row(schedules_[i])]),
      suffix |-> suffix_md ]

\* a check_readme that compares the wrong way round
check_readme_inverted(before, after) == before # after

\* check_readme(before, after)
check_readme(before, after) == before = after

\* ------------------------------------------------------ write_workflows

RECURSIVE WriteAll(_, _)
\* the effect on .github/workflows of a list of writes, in order
WriteAll(fs, docs) ==
    IF docs = << >> THEN fs
    ELSE WriteAll((Head(docs).file :> Head(docs).text) @@ fs, Tail(docs))

\* write_workflows(...): the documents written, in the order of the loops;
\* ns[i] is what random.randrange returns for the i-th endpoint
write_workflows(jobs_, registry_, endpoints_, resources_, assets_, scripts_, schedules_, ns) ==
    [i \in DOMAIN jobs_ |-> write_job_workflow(jobs_[i])]
    \o [i \in DOMAIN registry_ |-> write_job_using_registry_components_workflow(registry_[i])]
    \o [i \in DOMAIN endpoints_ |-> write_endpoint_workflow(endpoints_[i], ns[i])]
    \o [i \in DOMAIN resources_ |-> write_asset_workflow(resources_[i])]
    \o [i \in DOMAIN assets_ |-> write_asset_workflow(assets_[i])]
    \o [i \in DOMAIN scripts_ |-> write_script_workflow(scripts_[i])]
    \o [i \in DOMAIN schedules_ |-> write_schedule_workflow(schedules_[i])]

\* --------------------------------------------------------------- main

\* a loop in which no notebook raises
FirstBad_none(nbs) == 0

RECURSIVE FirstBad(_)
\* the position in the list of the first notebook on which json.load or
\* data["metadata"] raises; 0 if there is none
FirstBad(nbs) ==
    IF nbs = << >> THEN 0
    ELSE LET data == notebook_data[posix(Head(nbs))]
         IN  IF ~data.json \/ ~data.metadata THEN 1
             ELSE LET rest == FirstBad(Tail(nbs))
                  IN  IF rest = 0 THEN 0 ELSE rest + 1

\* modify_notebooks(notebooks): the notebook files after the loop, which
\* stops at the first notebook that raises
modify_notebooks(nbs) ==
    LET bad == FirstBad(nbs)
        done == IF bad = 0 THEN Range(nbs) ELSE {nbs[i] : i \in 1..(bad - 1)}
    IN  [n \in DOMAIN notebook_data |->
            IF n \in {posix(d) : d \in done}
            THEN [notebook_data[n] EXCEPT !.kernelspec = kernelspec]
            ELSE notebook_data[n]]

NoList == << >>

\* the command line before the flag is read; --check-readme is read only
\* at line 182, and the flag of the invocation is drawn in that step
NoArgs == [check_readme |-> FALSE]

\* README.md as committed before the tree had any example
InitialReadme == write_readme(NoList, NoList, NoList, NoList, NoList, NoList)

Init ==
    /\ os_sep \in {"/", "\\"}
    /\ tree \in Trees
    /\ notebook_data =
          [n \in {f \in tree : fnmatch(f, <<"*",".","i","p","y","n","b">>)} |-> InitialNotebook(n)]
    /\ workflows = << >>
    /\ README = InitialReadme
    /\ pc = "modify_notebooks"
    /\ run = 1
    /\ args = NoArgs
    /\ notebooks = NoList
    /\ jobs = NoList
    /\ jobs_using_registry_components = NoList
    /\ endpoints = NoList
    /\ resources = NoList
    /\ assets = NoList
    /\ scripts = NoList
    /\ schedules = NoList
    /\ readme_before = InitialReadme
    /\ readme_after = InitialReadme
    /\ exit_code = -1
    /\ written = << >>
    /\ prev_workflows = << >>
    /\ prev_README = InitialReadme

\* main, lines 70-73: the notebooks are listed and rewritten; an exception
\* of modify_notebooks is not caught and ends the process
ModifyNotebooks ==
    /\ pc = "modify_notebooks"
    /\ notebooks' = main_notebooks
    /\ notebook_data' = modify_notebooks(main_notebooks)
    /\ IF FirstBad(main_notebooks) = 0
       THEN pc' = "discover" /\ exit_code' = exit_code
       ELSE pc' = "exit" /\ exit_code' = 1
    /\ UNCHANGED << os_sep, tree, workflows, README, run, args, jobs,
                    jobs_using_registry_components, endpoints, resources, assets,
                    scripts, schedules, readme_before, readme_after, written,
                    prev_workflows, prev_README >>

\* main, lines 76-157: the seven item lists
Discover ==
    /\ pc = "discover"
    /\ jobs' = main_jobs
    /\ jobs_using_registry_components' = main_jobs_using_registry_components
    /\ endpoints' = main_endpoints
    /\ resources' = main_resources
    /\ assets' = main_assets
    /\ scripts' = main_scripts
    /\ schedules' = main_schedules
    /\ pc' = "write_workflows"
    /\ UNCHANGED << os_sep, tree, notebook_data, workflows, README, run, args, notebooks,
                    readme_before, readme_after, exit_code, written, prev_workflows,
                    prev_README >>

\* main, lines 160-168
WriteWorkflows ==
    /\ pc = "write_workflows"
    /\ \E ns \in [DOMAIN endpoints -> randrange(1000, 9999)] :
          LET docs == write_workflows(jobs, jobs_using_registry_components, endpoints,
                                      resources, assets, scripts, schedules, ns)
          IN  /\ workflows' = WriteAll(workflows, docs)
              /\ written' = written \o [i \in DOMAIN docs |-> docs[i].file]
    /\ pc' = "write_readme"
    /\ UNCHANGED << os_sep, tree, notebook_data, README, run, args, notebooks, jobs,
                    jobs_using_registry_components, endpoints, resources, assets,
                    scripts, schedules, readme_before, readme_after, exit_code,
                    prev_workflows, prev_README >>

\* main, lines 171-185: README.md is read, rewritten and read again, the
\* two texts are compared if --check-readme is given, and the process ends
RegenerateReadme ==
    /\ pc = "write_readme"
    /\ readme_before' = README
    /\ README' = write_readme(jobs, endpoints, resources, assets, scripts, schedules)
    /\ readme_after' = README'
    /\ \E check \in BOOLEAN :
          /\ args' = [check_readme |-> check]
          /\ exit_code' = IF check /\ ~check_readme(readme_before', readme_after')
                          THEN 2 ELSE 0
    /\ pc' = "exit"
    /\ UNCHANGED << os_sep, tree, notebook_data, workflows, run, notebooks, jobs,
                    jobs_using_registry_components, endpoints, resources, assets,
                    scripts, schedules, written, prev_workflows, prev_README >>

\* the generator is invoked again over the tree as the last invocation left it
Rerun ==
    /\ pc = "exit"
    /\ run < MaxRuns
    /\ run' = run + 1
    /\ pc' = "modify_notebooks"
    /\ args' = NoArgs
    /\ notebooks' = NoList
    /\ jobs' = NoList
    /\ jobs_using_registry_components' = NoList
    /\ endpoints' = NoList
    /\ resources' = NoList
    /\ assets' = NoList
    /\ scripts' = NoList
    /\ schedules' = NoList
    /\ readme_before' = InitialReadme
    /\ readme_after' = InitialReadme
    /\ exit_code' = -1
    /\ written' = << >>
    /\ prev_workflows' = workflows
    /\ prev_README' = README
    /\ UNCHANGED << os_sep, tree, notebook_data, workflows, README >>

\* between two invocations a notebook file is damaged: it is no JSON
\* document any more
EditNotebook ==
    /\ pc = "exit"
    /\ run < MaxRuns
    /\ \E n \in DOMAIN notebook_data :
          /\ notebook_data[n].json
          /\ notebook_data' = [notebook_data EXCEPT ![n].json = FALSE]
    /\ UNCHANGED << os_sep, tree, workflows, README, pc, run, args, notebooks, jobs,
                    jobs_using_registry_components, endpoints, resources, assets,
                    scripts, schedules, readme_before, readme_after, exit_code, written,
                    prev_workflows, prev_README >>

Next ==
    \/ ModifyNotebooks
    \/ Discover
    \/ WriteWorkflows
    \/ RegenerateReadme
    \/ Rerun
    \/ EditNotebook

Spec == Init /\ [][Next]_vars


\* ------------------------------------------------- reading the outputs

\* write_workflows has just returned
WorkflowsWritten == pc = "write_readme"

\* this invocation has ended without an uncaught exception
Completed == pc = "exit" /\ exit_code # 1

\* the positions of a piece of template text in a workflow text
Pos(doc, chunk) == {i \in DOMAIN doc : doc[i] = chunk}

RECURSIVE FieldAt(_, _)
\* the substituted characters of doc that start at position i and end
\* before the next piece of template text
FieldAt(doc, i) ==
    IF i > Len(doc) \/ doc[i] \notin Chars THEN << >>
    ELSE <<doc[i]>> \o FieldAt(doc, i + 1)

\* the k-th smallest element of a set of positions
Nth(S, k) == CHOOSE p \in S : Cardinality({q \in S : q <= p}) = k

\* the items of this invocation with the name of the workflow file of each
ListedWorkflows ==
    { <<jobs[i], <<"c","l","i","-">> \o parse_path(jobs[i]).hyphenated \o yml>> : i \in DOMAIN jobs }
    \cup { <<jobs_using_registry_components[i],
             <<"c","l","i","-">> \o parse_path(jobs_using_registry_components[i]).hyphenated
                 \o <<"-","r","e","g","i","s","t","r","y",".","y","m","l">>>> : i \in DOMAIN jobs_using_registry_components }
    \cup { <<endpoints[i], <<"c","l","i","-">> \o parse_path(endpoints[i]).hyphenated \o yml>> :
             i \in DOMAIN endpoints }
    \cup { <<resources[i], <<"c","l","i","-">> \o parse_path(resources[i]).hyphenated \o yml>> :
             i \in DOMAIN resources }
    \cup { <<assets[i], <<"c","l","i","-">> \o parse_path(assets[i]).hyphenated \o yml>> :
             i \in DOMAIN assets }
    \cup { <<scripts[i], <<"c","l","i","-","s","c","r","i","p","t","s","-">> \o parse_path(scripts[i]).hyphenated \o yml>> :
             i \in DOMAIN scripts }
    \cup { <<schedules[i], <<"c","l","i","-","s","c","h","e","d","u","l","e","s","-">> \o parse_path(schedules[i]).hyphenated \o yml>> :
             i \in DOMAIN schedules }

\* the workflow files of the endpoints of this invocation
EndpointFiles ==
    { <<"c","l","i","-">> \o parse_path(endpoints[i]).hyphenated \o yml : i \in DOMAIN endpoints }

\* the README tables that have a description column
DescribedTables ==
    { README.jobs_table, README.endpoints_table, README.resources_table,
      README.assets_table }

\* --------------------------------------------------------------- C1

\* C1: when main runs with the check flag enabled, the process exits with
\* code 2 if and only if the README read before write_readme differs from
\* the README read after it, and with code 0 when the two are identical.
C1_CheckExit ==
    (Completed /\ args.check_readme) =>
        /\ (exit_code = 2) <=> (readme_before # readme_after)
        /\ (readme_before = readme_after) => (exit_code = 0)

\* a check-mode invocation that found the README out of date
C1_Witness ==
    /\ Completed
    /\ args.check_readme
    /\ readme_before # readme_after
    /\ exit_code = 2

\* --------------------------------------------------------------- C2

\* the pieces of template text that precede an endpoint name
NameIntro == {"-endpoint delete -n ", "-endpoint create -n ", "-deployment create -e "}

\* position i of doc lies in an endpoint name
InEndpointName(doc, i) ==
    \E j \in DOMAIN doc :
        /\ doc[j] \in NameIntro
        /\ j < i
        /\ i <= j + Len(FieldAt(doc, j + 1))

\* two workflow texts that are equal outside the endpoint names, which have
\* the same length and differ in decimal digits only
SameButEndpointName(a, b) ==
    /\ Len(a) = Len(b)
    /\ \A i \in DOMAIN a :
          a[i] # b[i] =>
              /\ InEndpointName(a, i)
              /\ InEndpointName(b, i)
              /\ a[i] \in Range(Digits)
              /\ b[i] \in Range(Digits)

\* C2 (as the program behaves): after a second invocation over an unchanged
\* tree the README and every workflow file that is not an endpoint's are
\* identical to those of the first invocation, the same workflow files
\* exist, and an endpoint's workflow is identical except for the digits of
\* the random suffix of the endpoint name.
C2_IdempotentExceptEndpointName ==
    (Completed /\ run > 1) =>
        /\ README = prev_README
        /\ DOMAIN workflows = DOMAIN prev_workflows
        /\ \A f \in DOMAIN workflows :
              IF f \in EndpointFiles
              THEN SameButEndpointName(workflows[f], prev_workflows[f])
              ELSE workflows[f] = prev_workflows[f]

\* C2 (as stated): after a second invocation over an unchanged tree the
\* README and the set of workflow files are byte-identical to those of the
\* first invocation, for every category including endpoints.
C2_Idempotent ==
    (Completed /\ run > 1) =>
        /\ README = prev_README
        /\ workflows = prev_workflows

\* a second invocation that rewrote an endpoint workflow and another one
C2_Witness ==
    /\ Completed
    /\ run > 1
    /\ \E f \in DOMAIN workflows : f \in EndpointFiles
    /\ \E f \in DOMAIN workflows : f \notin EndpointFiles
    /\ README.endpoints_table # << >>

\* --------------------------------------------------------------- C3

\* For each category: the paths glob returned, the exclusion list, the
\* suffix main strips, the list main built, the README table (none for the
\* jobs that use registry components) and the two ends of the name of the
\* workflow file.
Categories ==
    { [ globbed |-> Range(jobs_globbed), EXCLUDED |-> EXCLUDED_JOBS, suffix |-> yml,
        list |-> jobs, rows |-> README.jobs_table,
        head |-> <<"c","l","i","-">>, tail |-> yml ],
      [ globbed |-> glob(registry_pattern, TRUE), EXCLUDED |-> EXCLUDED_JOBS,
        suffix |-> yml, list |-> jobs_using_registry_components, rows |-> << >>,
        head |-> <<"c","l","i","-">>, tail |-> <<"-","r","e","g","i","s","t","r","y",".","y","m","l">> ],
      [ globbed |-> glob(endpoints_pattern, TRUE), EXCLUDED |-> EXCLUDED_ENDPOINTS,
        suffix |-> yml, list |-> endpoints, rows |-> README.endpoints_table,
        head |-> <<"c","l","i","-">>, tail |-> yml ],
      [ globbed |-> glob(resources_pattern, TRUE), EXCLUDED |-> EXCLUDED_RESOURCES,
        suffix |-> yml, list |-> resources, rows |-> README.resources_table,
        head |-> <<"c","l","i","-">>, tail |-> yml ],
      [ globbed |-> glob(assets_pattern, TRUE), EXCLUDED |-> EXCLUDED_ASSETS,
        suffix |-> yml, list |-> assets, rows |-> README.assets_table,
        head |-> <<"c","l","i","-">>, tail |-> yml ],
      [ globbed |-> glob(scripts_pattern, FALSE), EXCLUDED |-> EXCLUDED_SCRIPTS,
        suffix |-> sh, list |-> scripts, rows |-> README.scripts_table,
        head |-> <<"c","l","i","-","s","c","r","i","p","t","s","-">>, tail |-> yml ],
      [ globbed |-> glob(schedules_pattern, TRUE), EXCLUDED |-> EXCLUDED_SCHEDULES,
        suffix |-> yml, list |-> schedules, rows |-> README.schedules_table,
        head |-> <<"c","l","i","-","s","c","h","e","d","u","l","e","s","-">>, tail |-> yml ] }

\* the forward-slash form of path holds a substring of the exclusion list
ExcludedPath(path, EXCLUDED) ==
    \E k \in DOMAIN EXCLUDED : Contains(Replace(path, <<os_sep>>, slash), EXCLUDED[k])

\* C3: in every category, a globbed path whose forward-slash form contains
\* a substring of the category's exclusion list is in no list handed to
\* write_workflows or write_readme, has no README row and no workflow file.
C3_Excluded ==
    Completed =>
        \A c \in Categories : \A p \in c.globbed :
            ExcludedPath(p, c.EXCLUDED) =>
                LET item == Replace(p, c.suffix, << >>)
                IN  /\ item \notin Range(c.list)
                    /\ \A r \in DOMAIN c.rows :
                          c.rows[r].path # Replace(p, <<os_sep>>, slash)
                    /\ (c.head \o parse_path(item).hyphenated \o c.tail)
                          \notin DOMAIN workflows

\* an invocation on Windows over a tree with a resource whose exclusion
\* substring holds a separator, beside an item that is not excluded
C3_Witness ==
    /\ Completed
    /\ os_sep = "\\"
    /\ <<"r","e","s","o","u","r","c","e","s","/","c","o","m","p","u","t","e","/","c","l","u","s","t","e","r","-","u","s","e","r","-","i","d","e","n","t","i","t","y",".","y","m","l">> \in tree
    /\ \E c \in Categories : \E p \in c.globbed :
          /\ ExcludedPath(p, c.EXCLUDED)
          /\ Contains(p, <<os_sep>>)
    /\ workflows # << >>

\* --------------------------------------------------------------- C4

\* C4: in each category list of main, and so in the README table and in the
\* order of the writes, an item that appears before another has the
\* forward-slash path that sorts lexically before the other's.
C4_Sorted ==
    \A c \in Categories : \A i, j \in DOMAIN c.list :
        i < j => ~LexLess(Replace(c.list[j], <<os_sep>>, slash) \o c.suffix,
                          Replace(c.list[i], <<os_sep>>, slash) \o c.suffix)

\* --------------------------------------------------------------- C5

\* no element occurs twice in a list
NoRepetition(xs) == \A i, j \in DOMAIN xs : i # j => xs[i] # xs[j]

\* C5: a file matched by more than one pattern of its category is once in
\* the category's list: no list of main, no README table and no sequence
\* of workflow writes holds the same path twice.
C5_NoDuplicates ==
    /\ \A c \in Categories :
          /\ NoRepetition(c.list)
          /\ NoRepetition([r \in DOMAIN c.rows |-> c.rows[r].path])
    /\ NoRepetition(written)

\* --------------------------------------------------------------- C6

CreateDeployment == "    - name: create deployment\n"

CreateEndpoint == "    - name: create endpoint\n"

CleanupEndpoint == "    - name: cleanup endpoint\n"

\* the step names of an endpoint workflow
EndpointStepNames ==
    { "    - name: check out repo\n", "    - name: azure login\n",
      "    - name: bootstrap resources\n", "    - name: setup-cli\n",
      "    - name: validate readme\n", "    - name: delete endpoint if existing\n",
      CreateEndpoint, CreateDeployment, CleanupEndpoint }

\* path ends with suffix
EndsWith(path, suffix) == LastN(path, Len(suffix)) = suffix /\ Len(path) >= Len(suffix)

\* the deployment files in the directory of an endpoint definition file
\* that hold no substring of the deployment deny-list, by forward-slash
\* path in sorted order
SurvivingDeployments(endpoint_file) ==
    sorted({ d \in tree :
               /\ Front(Split(d, slash)) = Front(Split(endpoint_file, slash))
               /\ EndsWith(d, <<"d","e","p","l","o","y","m","e","n","t",".","y","m","l">>) \/ EndsWith(d, <<"d","e","p","l","o","y","m","e","n","t",".","y","a","m","l">>)
               /\ \A k \in DOMAIN EXCLUDED_DEPLOYMENTS :
                     ~Contains(d, EXCLUDED_DEPLOYMENTS[k]) })

\* the file that the step at position i of doc shows with cat
CatOfStep(doc, i) ==
    LET j == CHOOSE k \in Pos(doc, "          cat ") :
                 k > i /\ \A l \in Pos(doc, "          cat ") : l > i => k <= l
    IN  Replace(FieldAt(doc, j + 1), <<os_sep>>, slash) \o yml

\* C6: an endpoint workflow has as many "create deployment" steps as there
\* are surviving deployment files beside the endpoint, in the sorted order
\* of the deployment files, all after the one "create endpoint" step and
\* before the one "cleanup endpoint" step, which is the last step; beside
\* blue-deployment.yml and green-deployment.yml there are two, blue first.
C6_DeploymentSteps ==
    WorkflowsWritten =>
        \A e \in DOMAIN endpoints :
            LET endpoint_file == Replace(endpoints[e], <<os_sep>>, slash) \o yml
                doc == workflows[<<"c","l","i","-">> \o parse_path(endpoints[e]).hyphenated \o yml]
                creates == Pos(doc, CreateDeployment)
                surviving == SurvivingDeployments(endpoint_file)
                blue == <<"e","n","d","p","o","i","n","t","s","/","o","n","l","i","n","e","/","f","o","o","/","b","l","u","e","-","d","e","p","l","o","y","m","e","n","t",".","y","m","l">>
                green == <<"e","n","d","p","o","i","n","t","s","/","o","n","l","i","n","e","/","f","o","o","/","g","r","e","e","n","-","d","e","p","l","o","y","m","e","n","t",".","y","m","l">>
            IN  /\ Cardinality(creates) = Len(surviving)
                /\ \A k \in DOMAIN surviving :
                      CatOfStep(doc, Nth(creates, k)) = surviving[k]
                /\ Cardinality(Pos(doc, CreateEndpoint)) = 1
                /\ Cardinality(Pos(doc, CleanupEndpoint)) = 1
                /\ \A c \in creates :
                      /\ \A s \in Pos(doc, CreateEndpoint) : s < c
                      /\ \A s \in Pos(doc, CleanupEndpoint) : c < s
                /\ \A i \in DOMAIN doc :
                      doc[i] \in EndpointStepNames =>
                          \A s \in Pos(doc, CleanupEndpoint) : i <= s
                /\ (endpoint_file = DeployedEndpoint /\ {blue, green} \subseteq tree) =>
                      /\ Cardinality(creates) = 2
                      /\ CatOfStep(doc, Nth(creates, 1)) = blue
                      /\ CatOfStep(doc, Nth(creates, 2)) = green

\* the workflow of the endpoint that has the blue, the green and an
\* excluded deployment file beside it, with its two steps
C6_Witness ==
    /\ WorkflowsWritten
    /\ DeploymentFiles \subseteq tree
    /\ \E f \in DOMAIN workflows :
          /\ f \in EndpointFiles
          /\ Cardinality(Pos(workflows[f], CreateDeployment)) = 2

\* --------------------------------------------------------------- C7

\* line is a `description:` key with a value
IsDescriptionKey(line) ==
    Len(LStrip(line)) >= 13 /\ SubSeq(LStrip(line), 1, 13) = <<"d","e","s","c","r","i","p","t","i","o","n",":"," ">>

RECURSIVE FirstDescriptionKey(_)
\* the value of the first `description:` key of a file, the sentinel if
\* the file has none
FirstDescriptionKey(lines) ==
    IF lines = << >> THEN <<"*","n","o"," ","d","e","s","c","r","i","p","t","i","o","n","*">>
    ELSE IF IsDescriptionKey(Head(lines)) THEN Strip(From(LStrip(Head(lines)), 13))
    ELSE FirstDescriptionKey(Tail(lines))

\* C7: the description column of a job, endpoint, resource or asset row is
\* the value of the first `description:` key of the item's definition
\* file, whatever the value and the earlier lines hold, and the sentinel
\* "*no description*" when the file has no such key or cannot be opened.
C7_Description ==
    \A table \in DescribedTables : \A r \in DOMAIN table :
        table[r].description =
            IF table[r].path \in tree \ Unreadable
            THEN FirstDescriptionKey(FileLines(table[r].path))
            ELSE <<"*","n","o"," ","d","e","s","c","r","i","p","t","i","o","n","*">>

\* --------------------------------------------------------------- C8

CronOpen == "    - cron: \""

CronClose == " * * *\"\n"

\* the cron field an emitter writes for an item from the digest of its file name
CronOf(item) ==
    LET h == name_hash(parse_path(item).filename)
    IN  str(h % 60) \o <<" ">> \o str((h \div 60) % 12) \o <<"/","1","2">>

\* C8: for the file name of every item, with h the value of its digest,
\* get_schedule_time returns the hour (h div 60) mod 12 and the minute
\* h mod 60, so an hour from 0 to 11 and a minute from 0 to 59, and the one
\* cron line of a workflow is "minute hour/12 * * *" for the item it was
\* written for (one of the items that have this workflow file).
C8_ScheduleTime ==
    WorkflowsWritten =>
        \A w \in ListedWorkflows :
            LET filename == parse_path(w[1]).filename
                h == name_hash(filename)
                time == get_schedule_time(filename)
                doc == workflows[w[2]]
                cron == CHOOSE i \in Pos(doc, CronOpen) : TRUE
                field == FieldAt(doc, cron + 1)
            IN  /\ time = << (h \div 60) % 12, h % 60 >>
                /\ time[1] \in 0..11
                /\ time[2] \in 0..59
                /\ Cardinality(Pos(doc, CronOpen)) = 1
                /\ \E v \in ListedWorkflows : v[2] = w[2] /\ field = CronOf(v[1])
                /\ doc[cron + 1 + Len(field)] = CronClose

\* workflows written for items of two categories whose file names have
\* different schedule times, one of them with a digest of 720 or more
C8_Witness ==
    /\ WorkflowsWritten
    /\ \E v, w \in ListedWorkflows :
          /\ get_schedule_time(parse_path(v[1]).filename)
                # get_schedule_time(parse_path(w[1]).filename)
          /\ name_hash(parse_path(v[1]).filename) >= 720
          /\ v[2] \in DOMAIN workflows
          /\ w[2] \in DOMAIN workflows

\* --------------------------------------------------------------- C9

\* C9: the workflow file named in the status badge link of every README
\* row is the file write_workflows writes for the row's item, also for a
\* schedule in a subdirectory of schedules/.
C9_BadgeWorkflow ==
    Completed =>
        /\ \A i \in DOMAIN scripts :
              README.scripts_table[i].workflow = write_script_workflow(scripts[i]).file
        /\ \A i \in DOMAIN jobs :
              README.jobs_table[i].workflow = write_job_workflow(jobs[i]).file
        /\ \A i \in DOMAIN endpoints : \A n \in randrange(1000, 9999) :
              README.endpoints_table[i].workflow
                  = write_endpoint_workflow(endpoints[i], n).file
        /\ \A i \in DOMAIN resources :
              README.resources_table[i].workflow = write_asset_workflow(resources[i]).file
        /\ \A i \in DOMAIN assets :
              README.assets_table[i].workflow = write_asset_workflow(assets[i]).file
        /\ \A i \in DOMAIN schedules :
              README.schedules_table[i].workflow
                  = write_schedule_workflow(schedules[i]).file
        /\ \A table \in DescribedTables \cup {README.scripts_table, README.schedules_table} :
              \A r \in DOMAIN table : table[r].workflow \in DOMAIN workflows

\* -------------------------------------------------------------- C10

\* a notebook that json.load or data["metadata"] raises on
BadNotebook == \E n \in DOMAIN notebook_data : ~notebook_data[n].json \/ ~notebook_data[n].metadata

\* C10: with a notebook in the tree that is no JSON document with a
\* metadata section, the step that runs modify_notebooks ends the process
\* with an uncaught error: no workflow file is written and README.md is
\* left as it was, and main gets past modify_notebooks only without one.
C10_NotebookAbort ==
    [][ /\ (pc = "modify_notebooks" /\ BadNotebook) =>
              /\ pc' = "exit"
              /\ exit_code' = 1
              /\ workflows' = workflows
              /\ README' = README
              /\ written' = << >>
        /\ pc' \in {"discover", "write_workflows", "write_readme"} => ~BadNotebook'
        /\ (pc' = "exit" /\ exit_code' = 1) =>
              /\ pc \in {"modify_notebooks", "exit"}
              /\ workflows' = workflows
              /\ README' = README
              /\ written' = << >> ]_vars

\* an invocation that aborted on a notebook over the workflows and the
\* README left by an earlier invocation
C10_Witness ==
    /\ pc = "exit"
    /\ exit_code = 1
    /\ workflows # << >>
    /\ workflows = prev_workflows
    /\ README = prev_README
    /\ README # InitialReadme
    /\ written = << >>

\* -------------------------------------------------------------- C11

\* the lines that open the steps of the generated workflows
StepNameLines ==
    EndpointStepNames
    \cup { "    - name: upload data\n", "    - name: setup identities\n",
           "    - name: setup attached spark\n", "    - name: run job\n",
           "    - name: create asset\n", "    - name: test script script\n",
           "    - name: create schedule\n", "    - name: disable schedule\n" }

\* the step names of a workflow text, in the order of the text
StepNames(doc) == SelectSeq(doc, LAMBDA piece : piece \in StepNameLines)

\* the pieces of the step of doc that opens with name, up to the next step
StepBody(doc, name) ==
    LET start == CHOOSE i \in Pos(doc, name) : \A j \in Pos(doc, name) : i <= j
        later == {i \in DOMAIN doc : i > start /\ doc[i] \in StepNameLines}
        stop == IF later = {} THEN Len(doc) + 1
                ELSE CHOOSE i \in later : \A j \in later : i <= j
    IN  SubSeq(doc, start + 1, stop - 1)

\* doc is the workflow of a job that uses registry components
IsRegistryWorkflow(doc) == Pos(doc, "-registry") # {}

CommonSteps ==
    << "    - name: check out repo\n", "    - name: azure login\n",
       "    - name: bootstrap resources\n", "    - name: setup-cli\n" >>

ValidateReadme == "    - name: validate readme\n"

RunJob == "    - name: run job\n"

\* C11: every workflow text opens with the steps check out, azure login,
\* bootstrap resources (continue-on-error false) and setup-cli
\* (continue-on-error true), goes on with the steps of its category and ends
\* with the "validate readme" step; only the workflow of a job that uses
\* registry components has "validate readme" before "run job".
C11_StepOrder ==
    WorkflowsWritten =>
        \A f \in DOMAIN workflows :
            LET doc == workflows[f]
                names == StepNames(doc)
            IN  /\ Len(names) >= 6
                /\ SubSeq(names, 1, 4) = CommonSteps
                /\ Pos(StepBody(doc, CommonSteps[3]), "      continue-on-error: false\n") # {}
                /\ Pos(StepBody(doc, CommonSteps[4]), "      continue-on-error: true\n") # {}
                /\ Cardinality(Pos(doc, ValidateReadme)) = 1
                /\ IF IsRegistryWorkflow(doc)
                   THEN SubSeq(names, 5, Len(names)) = << ValidateReadme, RunJob >>
                   ELSE names[Len(names)] = ValidateReadme

\* -------------------------------------------------------------- C12

\* the deployment files in the directory of an endpoint definition file
DeploymentsBeside(endpoint_file) ==
    { d \in tree :
        /\ Front(Split(d, slash)) = Front(Split(endpoint_file, slash))
        /\ EndsWith(d, <<"d","e","p","l","o","y","m","e","n","t",".","y","m","l">>) \/ EndsWith(d, <<"d","e","p","l","o","y","m","e","n","t",".","y","a","m","l">>) }

\* the file name of a path without its extension
Basename(path) == Replace(Replace(Last(Split(path, slash)), yml, <<>>), yaml, <<>>)

\* C12: a deployment file beside an endpoint has a "create deployment"
\* step in the endpoint's workflow if and only if its basename is not an
\* entry of the deployment deny-list; a basename or directory that only
\* contains an entry (docker-deployment contains r-deployment) keeps its step.
C12_DenyListedBasename ==
    WorkflowsWritten =>
        \A e \in DOMAIN endpoints :
            LET endpoint_file == Replace(endpoints[e], <<os_sep>>, slash) \o yml
                doc == workflows[<<"c","l","i","-">> \o parse_path(endpoints[e]).hyphenated \o yml]
                creates == Pos(doc, CreateDeployment)
            IN  \A d \in DeploymentsBeside(endpoint_file) :
                    (\E c \in creates : CatOfStep(doc, c) = d)
                        <=> (Basename(d) \notin Range(EXCLUDED_DEPLOYMENTS))

\* -------------------------------------------------------------- C13

\* the items of this invocation whose workflow file no other item shares
Unshared == { v \in ListedWorkflows : \A w \in ListedWorkflows : w[2] = v[2] => w = v }

PrepareData ==
    "/infra/bootstrapping/sdk_helpers.sh\" replace_template_values \"prepare_data.py\";\n"

GenerateYml == "          bash -x generate-yml.sh\n"

Runner == "/run-job.sh "

\* C13: in the workflow of a plain job the data-preparation commands stand
\* before the runner if and only if the job path contains "automl" and
\* "image", the generate-yml command stands before the runner if and only
\* if the path contains "autotuning", whatever the other markers, and the
\* last command of the "run job" step is run-job.sh with the item's filename.
C13_JobPolicies ==
    WorkflowsWritten =>
        \A i \in DOMAIN jobs :
            LET file == <<"c","l","i","-">> \o parse_path(jobs[i]).hyphenated \o yml
                doc == workflows[file]
                body == StepBody(doc, RunJob)
                runner == Pos(body, Runner)
            IN  <<jobs[i], file>> \in Unshared =>
                    /\ Cardinality(runner) = 1
                    /\ \A r \in runner :
                          /\ FieldAt(body, r + 1) = parse_path(jobs[i]).filename
                          /\ body[r + 1 + Len(parse_path(jobs[i]).filename)] = ".yml\n"
                          /\ body[r + 2 + Len(parse_path(jobs[i]).filename)]
                                = "      working-directory: cli/"
                          /\ \A q \in Pos(body, PrepareData) \cup Pos(body, GenerateYml) : q < r
                    /\ (Pos(body, PrepareData) # {})
                          <=> (Contains(jobs[i], <<"a","u","t","o","m","l">>) /\ Contains(jobs[i], <<"i","m","a","g","e">>))
                    /\ (Pos(body, GenerateYml) # {}) <=> Contains(jobs[i], <<"a","u","t","o","t","u","n","i","n","g">>)

\* -------------------------------------------------------------- C14

\* the pieces of template text of a part of a workflow text that are
\* longer than one character
Template(part) == SelectSeq(part, LAMBDA piece : piece \notin Chars)

\* C14: the workflow of a job that uses registry components has no branch
\* on the markers of the job path: its "run job" step holds the two
\* environment sourcing lines and the call of
\* run-pipeline-job-with-registry-components.sh with the filename and the
\* name of the parent directory, and nothing else.
C14_RegistryRunJob ==
    WorkflowsWritten =>
        \A i \in DOMAIN jobs_using_registry_components :
            LET job == jobs_using_registry_components[i]
                file == <<"c","l","i","-">> \o parse_path(job).hyphenated \o <<"-","r","e","g","i","s","t","r","y",".","y","m","l">>
                body == StepBody(workflows[file], RunJob)
                call == Pos(body, "/run-pipeline-job-with-registry-components.sh ")
            IN  <<job, file>> \in Unshared =>
                    /\ Template(body)
                          = << "      run: |\n" >> \o source_env
                            \o << "          bash -x ",
                                  "/run-pipeline-job-with-registry-components.sh ",
                                  "\n      working-directory: cli/" >>
                    /\ \A c \in call :
                          FieldAt(body, c + 1)
                              = parse_path(job).filename \o <<" ">>
                                \o Last(Split(posix(parse_path(job).project_dir), slash))

\* -------------------------------------------------------------- C15

\* the endpoint names that stand in a workflow text
EndpointNames(doc) ==
    { FieldAt(doc, j + 1) : j \in {i \in DOMAIN doc : doc[i] \in NameIntro} }

\* the last 28 characters of the hyphenated name without their hyphens
NameStem(hyphenated) ==
    LET tail == IF Len(hyphenated) <= 28 THEN hyphenated
                ELSE SubSeq(hyphenated, Len(hyphenated) - 27, Len(hyphenated))
    IN  SelectSeq(tail, LAMBDA c : c # "-")

RECURSIVE Value(_)
\* the number a decimal numeral stands for
Value(numeral) ==
    IF numeral = << >> THEN 0
    ELSE 10 * Value(Front(numeral))
         + (CHOOSE d \in 0 .. 9 : Digits[d + 1] = Last(numeral))

\* name is stem followed by the four digits of a number from low to high
StemAndNumber(name, stem, low, high) ==
    /\ Len(name) = Len(stem) + 4
    /\ SubSeq(name, 1, Len(stem)) = stem
    /\ \A i \in Len(stem) + 1 .. Len(name) : name[i] \in Range(Digits)
    /\ Value(SubSeq(name, Len(stem) + 1, Len(name))) \in low .. high

\* the workflow file of an endpoint
EndpointFile(endpoint) == <<"c","l","i","-">> \o parse_path(endpoint).hyphenated \o yml

\* the one endpoint name of every endpoint workflow is the stem of its item
\* followed by a number from low to high, and it stands in the delete, the
\* create endpoint, every create deployment and the cleanup step
NamedWithin(low, high) ==
    \A e \in DOMAIN endpoints :
        LET doc == workflows[EndpointFile(endpoints[e])]
            stem == NameStem(parse_path(endpoints[e]).hyphenated)
        IN  /\ \E name \in EndpointNames(doc) :
                  /\ EndpointNames(doc) = { name }
                  /\ StemAndNumber(name, stem, low, high)
            /\ Cardinality({i \in DOMAIN doc : doc[i] \in NameIntro})
                  = 3 + Cardinality(Pos(doc, CreateDeployment))
            /\ \A name \in { "    - name: delete endpoint if existing\n", CreateEndpoint,
                             CreateDeployment, CleanupEndpoint } :
                  Pos(doc, name) # {} =>
                      LET body == StepBody(doc, name)
                      IN  \E intro \in NameIntro : Pos(body, intro) # {}

\* for every endpoint and each of the numbers, random.randrange has a
\* draw with which write_endpoint_workflow writes that number into the name
CanDraw(numbers) ==
    \A e \in DOMAIN endpoints :
        LET names == UNION { EndpointNames(write_endpoint_workflow(endpoints[e], drawn).text) :
                               drawn \in randrange(1000, 9999) }
            stem == NameStem(parse_path(endpoints[e]).hyphenated)
        IN  \A n \in numbers : stem \o str(n) \in names

\* C15 (as the program behaves): the endpoint name of an endpoint workflow
\* is the last 28 characters of the hyphenated item name without their
\* hyphens, followed by a random number that can be any value from 1000 to
\* 9998, and the same name stands in the delete, the create endpoint, every
\* create deployment and the cleanup step of the text.
C15_EndpointNameBelow9999 ==
    /\ WorkflowsWritten => NamedWithin(1000, 9998)
    /\ pc = "write_workflows" => CanDraw({1000, 9998})

\* C15 (as stated): the same, with a random number that can be any value
\* from 1000 to 9999.
C15_EndpointName ==
    /\ WorkflowsWritten => NamedWithin(1000, 9999)
    /\ pc = "write_workflows" => CanDraw({1000, 9998, 9999})

\* the workflow of an endpoint with a name cut to 28 characters that lost
\* hyphens, with two create deployment steps, drawn at the upper end
C15_Witness ==
    /\ WorkflowsWritten
    /\ \E e \in DOMAIN endpoints :
          LET doc == workflows[EndpointFile(endpoints[e])]
              hyphenated == parse_path(endpoints[e]).hyphenated
          IN  /\ Len(hyphenated) > 28
              /\ Len(NameStem(hyphenated)) < 28
              /\ EndpointNames(doc) = { NameStem(hyphenated) \o <<"9","9","9","8">> }
              /\ Cardinality(Pos(doc, CreateDeployment)) = 2

\* -------------------------------------------------------------- C16

\* C16: in one invocation no two distinct items, of the same or of
\* different categories, have the same workflow file name, so that no
\* workflow written by write_workflows is overwritten by that of another item.
C16_DistinctWorkflowFiles ==
    WorkflowsWritten =>
        \A v \in ListedWorkflows :
            /\ v[2] \in DOMAIN workflows
            /\ \A w \in ListedWorkflows : v[2] = w[2] => v[1] = w[1]

\* -------------------------------------------------------------- C17

\* the positions of a workflow text that lie in an endpoint name
NamePositions(doc) ==
    UNION { j + 1 .. j + Len(FieldAt(doc, j + 1)) :
              j \in {i \in DOMAIN doc : doc[i] \in NameIntro} }

\* two workflow texts that are the same outside their endpoint names
SameOutsideNames(this, last) ==
    /\ Len(this) = Len(last)
    /\ NamePositions(this) = NamePositions(last)
    /\ \A i \in DOMAIN this \ NamePositions(this) : this[i] = last[i]

\* two endpoint names that are the same but for their last four characters
SameButSuffix(a, b) ==
    /\ Len(a) = Len(b)
    /\ Len(a) >= 4
    /\ SubSeq(a, 1, Len(a) - 4) = SubSeq(b, 1, Len(b) - 4)

\* C17: two invocations over the same tree give, whatever random.randrange
\* returns, the same README and the same workflow text for every job, job
\* that uses registry components, resource, asset, script and schedule; the
\* two workflow texts of an endpoint are the same everywhere outside the
\* endpoint name, and their endpoint names differ in the random suffix only.
C17_RunsAgree ==
    (Completed /\ run > 1) =>
        /\ README = prev_README
        /\ \A v \in ListedWorkflows :
              LET this == workflows[v[2]]
                  last == prev_workflows[v[2]]
              IN  IF v[1] \in Range(endpoints)
                  THEN /\ SameOutsideNames(this, last)
                       /\ \A a \in EndpointNames(this) : \A b \in EndpointNames(last) :
                             SameButSuffix(a, b)
                  ELSE this = last

\* a second invocation that drew another number for an endpoint than the
\* first, and that wrote the workflow of an item of another category too
C17_Witness ==
    /\ Completed
    /\ run > 1
    /\ \E v \in ListedWorkflows :
          /\ v[1] \in Range(endpoints)
          /\ workflows[v[2]] # prev_workflows[v[2]]
    /\ \E v \in ListedWorkflows : v[1] \notin Range(endpoints)
====
